---- MODULE Spec2Model ----
(***************************************************************************)
(* Visitor-logging web service (automatexpos/earnonline).                  *)
(*                                                                         *)
(* The repository holds two deployments of the same service:               *)
(*   app = "api"   src/api/index.py  (BaseHTTPRequestHandler, serverless)  *)
(*   app = "main"  src/main.py       (FastAPI application)                 *)
(* Both resolve a client address from request headers, enrich it with a    *)
(* reverse-DNS lookup, insert a visit record into the external "visits"    *)
(* table and show the last records on a key-protected dashboard.           *)
(*                                                                         *)
(* Text values are sequences of one-character strings, so that split and   *)
(* strip are computed and not assumed.                                     *)
(***************************************************************************)
EXTENDS Integers, Sequences, FiniteSets, TLC

\* ------------------------------------------------------------------ bounds
\* Longest x-forwarded-for header value drawn in ResolveSpec.
MaxLen == 3
\* Most rows the visits table grows by in Spec and FairSpec.
MaxVisits == 2
\* Rows already in the visits table when HistorySpec starts (written by
\* earlier processes: the table outlives them).
PreFill == 99
\* Rows HistorySpec adds on top of PreFill.
MaxNew == 2

\* ------------------------------------------------------- program constants
\* .limit(100) of the dashboard query.
HistoryLimit == 100
\* str(value)[:100] of the api dashboard's cells.
CellLimit == 100

\* ------------------------------------------------------------------- text
\* Python's None.  Every text value is a sequence of characters; None is a
\* sequence no text equals.
None == << "<None>" >>

\* The characters header values are drawn from: two address characters, the
\* separator and whitespace.
Alphabet == {"1", "2", ",", " "}

Whitespace == {" "}

\* An exception leaving a call, as a value the caller branches on.
Raised == << "<raised>" >>

\* Python truthiness of an optional string: None and "" are falsy.
Truthy(s) == s # None /\ s # << >>

\* Python's  a or b.
Or(a, b) == IF Truthy(a) THEN a ELSE b

\* All texts over Alphabet of length at most n.
Texts(n) == UNION {[1..k -> Alphabet] : k \in 0..n}

IndexOfComma(s) ==
    IF \E i \in 1..Len(s) : s[i] = ","
    THEN CHOOSE i \in 1..Len(s) : s[i] = "," /\ \A j \in 1..(i-1) : s[j] # ","
    ELSE 0

\* Mutant of FirstEntry: s.split(",")[-1], the last entry.
LastEntry(s) ==
    IF \E i \in 1..Len(s) : s[i] = ","
    THEN LET i == CHOOSE i \in 1..Len(s) : s[i] = "," /\ \A j \in (i+1)..Len(s) : s[j] # ","
         IN  SubSeq(s, i + 1, Len(s))
    ELSE s

\* s.split(",")[0]
FirstEntry(s) ==
    LET i == IndexOfComma(s)
    IN  IF i = 0 THEN s ELSE SubSeq(s, 1, i - 1)

RECURSIVE LStrip(_)
LStrip(s) ==
    IF s # << >> /\ Head(s) \in Whitespace THEN LStrip(Tail(s)) ELSE s

RECURSIVE RStrip(_)
RStrip(s) ==
    IF s # << >> /\ s[Len(s)] \in Whitespace
    THEN RStrip(SubSeq(s, 1, Len(s) - 1))
    ELSE s

\* s.strip()
Strip(s) == LStrip(RStrip(s))

\* The "unknown" marker of src/api/index.py.
Unknown == << "u", "n", "k", "n", "o", "w", "n" >>

\* headers.get(name, default): headers map every name to a text or None.
Get(headers, name, default) ==
    IF headers[name] = None THEN default ELSE headers[name]

HeaderNames == {"x-forwarded-for", "cf-connecting-ip", "x-real-ip", "user-agent", "referer"}

\* ------------------------------------------------------- address resolver
\* src/api/index.py detect_ip(headers) -> <<ip, xff>>
detect_ip(headers) ==
    LET xff == Get(headers, "x-forwarded-for", << >>)
        cf_ip == Get(headers, "cf-connecting-ip", << >>)
        real_ip == Get(headers, "x-real-ip", << >>)
    IN  IF Truthy(xff)
        THEN << Strip(FirstEntry(xff)), xff >>
        ELSE << Or(Or(cf_ip, real_ip), Unknown), None >>

\* src/main.py detect_ip(request) -> <<ip, xff>>.  request.client is None or
\* the peer's host (request.client.host).
detect_ip_main(request) ==
    LET xff == request.headers["x-forwarded-for"]
        cf_ip == request.headers["cf-connecting-ip"]
        real_ip == request.headers["x-real-ip"]
        peer == IF request.client # None THEN request.client ELSE None
        ip == IF Truthy(xff)
              THEN Strip(FirstEntry(xff))
              ELSE Or(Or(cf_ip, real_ip), peer)
    IN  << ip, xff >>

\* ------------------------------------------------------------------ state
VARIABLES
    app,              \* "api" (src/api/index.py) or "main" (src/main.py)
    ADMIN_KEY,        \* the configured shared secret
    configured,       \* SUPABASE_URL and SUPABASE_KEY are both set
    status,           \* "boot" before the module is imported, then "up" or "crashed"
    supabase_client,  \* the store-client handle, or None
    visits,           \* the rows of the external visits table, in insert order
    pc,               \* "idle", or "dns" while a handler is blocked in gethostbyaddr
    req,              \* the request being handled, or the last one handled
    resp,             \* the response to req, NoResponse until it is written
    calls,            \* the external calls made for req
    resolved          \* ResolveSpec: the pair detect_ip returned, or None

vars == << app, ADMIN_KEY, configured, status, supabase_client, visits, pc, req,
           resp, calls, resolved >>

\* The handle create_client returns.
Handle == << "<client>" >>

\* gethostbyaddr was not called.
NoAnswer == << "<no answer>" >>

NoResponse == [status |-> 0, route |-> "none", body |-> << >>]

NoRequest == [route |-> "none", headers |-> << >>, client |-> None, key |-> << >>, t |-> 0]

NoCalls == [create_client |-> "none", gethostbyaddr |-> "none", insert |-> << >>,
            insert_result |-> "none", select |-> "none"]

\* ------------------------------------------------------------ store client
\* src/api/index.py get_supabase(); cc is what create_client does if called.
get_supabase(client, isConfigured, cc) ==
    IF client = None /\ isConfigured
    THEN [client |-> IF cc = "ok" THEN Handle ELSE None, create_client |-> cc]
    ELSE [client |-> client, create_client |-> "none"]

\* ------------------------------------------------------------ reverse DNS
\* src/api/index.py reverse_dns: whether gethostbyaddr is called (line 39).
calls_gethostbyaddr(ip_address) == Truthy(ip_address) /\ ip_address # Unknown

\* Mutant of reverse_dns: no try/except around gethostbyaddr.
reverse_dns_uncaught(ip_address, answer) ==
    IF calls_gethostbyaddr(ip_address) THEN answer ELSE None

\* src/api/index.py reverse_dns(ip_address); answer is the host name
\* gethostbyaddr returned, or Raised (lines 38-44: every exception is caught).
reverse_dns(ip_address, answer) ==
    IF calls_gethostbyaddr(ip_address)
    THEN IF answer = Raised THEN None ELSE answer
    ELSE None

\* src/main.py landing: reverse_dns(ip) if ip else None
calls_gethostbyaddr_main(ip) == Truthy(ip)

\* src/main.py reverse_dns(ip)
reverse_dns_main(ip, answer) == IF answer = Raised THEN None ELSE answer

\* ----------------------------------------------------------- visit recorder
\* Mutant of log_visit: a failed insert is tried once more.
log_visit_retry(supabase, headers, answer, t, ins) ==
    IF supabase = None
    THEN [insert |-> << >>, insert_result |-> "none", status |-> 200]
    ELSE LET r == detect_ip(headers)
             remote_host == reverse_dns(r[1], answer)
             visit_data == [ts |-> t, ip |-> r[1], x_forwarded_for |-> r[2],
                            headers |-> headers,
                            user_agent |-> Get(headers, "user-agent", << >>),
                            referer |-> Get(headers, "referer", << >>),
                            remote_host |-> remote_host]
         IN  IF remote_host = Raised
             THEN [insert |-> << >>, insert_result |-> "none", status |-> 200]
             ELSE IF ins = "ok"
                  THEN [insert |-> << visit_data >>, insert_result |-> ins, status |-> 200]
                  ELSE [insert |-> << visit_data, visit_data >>, insert_result |-> "ok",
                        status |-> 200]

\* src/api/index.py log_visit(headers, path), given the handle get_supabase
\* returned, gethostbyaddr's answer, the clock reading and the insert's
\* outcome.  insert holds the rows passed to insert().execute(); every
\* exception is caught (line 70), so the caller always goes on (status 200).
log_visit(supabase, headers, answer, t, ins) ==
    IF supabase = None
    THEN [insert |-> << >>, insert_result |-> "none", status |-> 200]
    ELSE LET r == detect_ip(headers)
             remote_host == reverse_dns(r[1], answer)
             visit_data == [ts |-> t, ip |-> r[1], x_forwarded_for |-> r[2],
                            headers |-> headers,
                            user_agent |-> Get(headers, "user-agent", << >>),
                            referer |-> Get(headers, "referer", << >>),
                            remote_host |-> remote_host]
         IN  IF remote_host = Raised
             THEN [insert |-> << >>, insert_result |-> "none", status |-> 200]
             ELSE [insert |-> << visit_data >>, insert_result |-> ins, status |-> 200]

\* src/main.py landing, from detect_ip to the insert's try/except.  An
\* exception that leaves landing is answered 500 by the framework.
record_visit_main(request, answer, t, ins) ==
    LET r == detect_ip_main(request)
        remote_host == IF calls_gethostbyaddr_main(r[1])
                       THEN reverse_dns_main(r[1], answer)
                       ELSE None
        data == [ts |-> t, ip |-> r[1], x_forwarded_for |-> r[2],
                 headers |-> request.headers,
                 user_agent |-> request.headers["user-agent"],
                 referer |-> request.headers["referer"],
                 remote_host |-> remote_host]
    IN  IF remote_host = Raised
        THEN [insert |-> << >>, insert_result |-> "none", status |-> 500]
        ELSE [insert |-> << data >>, insert_result |-> ins, status |-> 200]

\* The table after the insert calls of one request.
Inserted(table, v) ==
    IF v.insert_result = "ok" THEN table \o v.insert ELSE table

\* ---------------------------------------------------------- history query
\* supabase.table("visits").select("*").order("ts", desc=True).limit(n):
\* the n rows of the table with the largest ts, largest first.  Rows with
\* equal ts are kept in insert order (the store leaves their order open).
Before(table, j, i) ==
    table[j].ts > table[i].ts \/ (table[j].ts = table[i].ts /\ j < i)

\* Mutant of QueryRecent: the query without .limit(n).
QueryUnlimited(table, n) ==
    LET N == Len(table)
        rank == [i \in 1..N |-> 1 + Cardinality({j \in 1..N : Before(table, j, i)})] \o << >>
    IN  [k \in 1..N |-> table[CHOOSE i \in 1..N : rank[i] = k]]

QueryRecent(table, n) ==
    LET N == Len(table)
        \* rank[i]: the place of row i in the order (a tuple, computed once)
        rank == [i \in 1..N |-> 1 + Cardinality({j \in 1..N : Before(table, j, i)})] \o << >>
        m == IF N < n THEN N ELSE n
    IN  [k \in 1..m |-> table[CHOOSE i \in 1..N : rank[i] = k]]

\* Mutant of authorized: a request without a key passes.
authorized_or_missing(admin_key, secret) == admin_key = secret \/ admin_key = << >>

\* The admin key check of handle_admin and admin_view.
authorized(admin_key, secret) == admin_key = secret

\* One dashboard cell: None is shown empty, text is cut to CellLimit.
Cell(value) ==
    IF value = None THEN << >>
    ELSE SubSeq(value, 1, IF Len(value) < CellLimit THEN Len(value) ELSE CellLimit)

\* The dashboard's table rows (api: handle_admin lines 188-199).
table_rows(rows) ==
    [k \in 1..Len(rows) |->
        [ts |-> rows[k].ts, ip |-> Cell(rows[k].ip),
         x_forwarded_for |-> Cell(rows[k].x_forwarded_for),
         user_agent |-> Cell(rows[k].user_agent),
         referer |-> Cell(rows[k].referer),
         remote_host |-> Cell(rows[k].remote_host)]]

\* The dashboard's table rows (main: admin_view lines 114-118): row.get(col) or ''.
table_rows_main(rows) ==
    [k \in 1..Len(rows) |->
        [ts |-> rows[k].ts, ip |-> Or(rows[k].ip, << >>),
         x_forwarded_for |-> Or(rows[k].x_forwarded_for, << >>),
         user_agent |-> Or(rows[k].user_agent, << >>),
         referer |-> Or(rows[k].referer, << >>),
         remote_host |-> Or(rows[k].remote_host, << >>)]]

\* ---------------------------------------------------------------- responses
UnknownAgent == << "U", "n", "k", "n", "o", "w", "n" >>

\* api handle_home's page: timestamp, address, user agent and the two links.
home_page(key, headers, ip, t) ==
    [status |-> 200, route |-> "home",
     body |-> [timestamp |-> t, ip |-> ip,
               user_agent |-> Get(headers, "user-agent", UnknownAgent),
               admin_link |-> key]]

\* main landing's page.
landing_page(t) ==
    [status |-> 200, route |-> "home", body |-> [timestamp |-> t]]

\* The framework's answer to an exception that leaves a handler:
\* do_GET's send_error(500) in api, the 500 response of FastAPI in main.
server_error(route) == [status |-> 500, route |-> route, body |-> << >>]

unauthorized == [status |-> 401, route |-> "admin", body |-> << >>]

dashboard(rows) ==
    [status |-> 200, route |-> "admin", body |-> [rows |-> rows, total |-> Len(rows)]]

not_found == [status |-> 404, route |-> "404", body |-> << >>]

\* ------------------------------------------------------------------ actions
\* The module is imported.  api: the handle starts as None (line 14).
\* main: the configuration is validated and create_client is called (lines
\* 20-25); an exception there ends the process.
Startup ==
    /\ status = "boot"
    /\ IF app = "api"
       THEN /\ status' = "up"
            /\ UNCHANGED << supabase_client, calls >>
       ELSE \E cc \in {"ok", "raise"} :
            LET ok == configured /\ cc = "ok"
            IN  /\ status' = IF ok THEN "up" ELSE "crashed"
                /\ supabase_client' = IF ok THEN Handle ELSE None
                /\ calls' = [NoCalls EXCEPT
                               !.create_client = IF configured THEN cc ELSE "none"]
    /\ UNCHANGED << app, ADMIN_KEY, configured, visits, pc, req, resp, resolved >>

Serving(a) == app = a /\ status = "up" /\ pc = "idle"

\* api GET /: handle_home -> log_visit.  The handler blocks in gethostbyaddr
\* when log_visit has a handle and reverse_dns makes the call.
handle_home(headers, cc, t, ins) ==
    /\ Serving("api")
    /\ LET g == get_supabase(supabase_client, configured, cc)
           ip == detect_ip(headers)[1]
           c == [NoCalls EXCEPT !.create_client = g.create_client]
       IN  /\ supabase_client' = g.client
           /\ req' = [route |-> "home", headers |-> headers, client |-> None,
                      key |-> << >>, t |-> t]
           /\ IF g.client # None /\ calls_gethostbyaddr(ip)
              THEN /\ pc' = "dns"
                   /\ resp' = NoResponse
                   /\ calls' = [c EXCEPT !.gethostbyaddr = "pending"]
                   /\ UNCHANGED visits
              ELSE LET v == log_visit(g.client, headers, NoAnswer, t, ins)
                   IN  /\ pc' = "idle"
                       /\ visits' = Inserted(visits, v)
                       /\ resp' = IF v.status = 200
                                  THEN home_page(ADMIN_KEY, headers, ip, t)
                                  ELSE server_error("home")
                       /\ calls' = [c EXCEPT !.insert = v.insert,
                                             !.insert_result = v.insert_result]
    /\ UNCHANGED << app, ADMIN_KEY, configured, status, resolved >>

\* api GET /raw: handle_raw calls reverse_dns(ip) itself.
raw_json(headers, t, remote_host) ==
    LET r == detect_ip(headers)
    IN  IF remote_host = Raised
        THEN server_error("raw")
        ELSE [status |-> 200, route |-> "raw",
              body |-> [timestamp |-> t, ip |-> r[1], x_forwarded_for |-> r[2],
                        headers |-> headers, remote_host |-> remote_host]]

handle_raw(headers, t) ==
    /\ Serving("api")
    /\ LET ip == detect_ip(headers)[1]
       IN  /\ req' = [route |-> "raw", headers |-> headers, client |-> None,
                      key |-> << >>, t |-> t]
           /\ IF calls_gethostbyaddr(ip)
              THEN /\ pc' = "dns"
                   /\ resp' = NoResponse
                   /\ calls' = [NoCalls EXCEPT !.gethostbyaddr = "pending"]
              ELSE /\ pc' = "idle"
                   /\ resp' = raw_json(headers, t, reverse_dns(ip, NoAnswer))
                   /\ calls' = NoCalls
    /\ UNCHANGED << app, ADMIN_KEY, configured, status, supabase_client, visits, resolved >>

\* api GET /admin?key=...
handle_admin(admin_key, cc, sel) ==
    /\ Serving("api")
    /\ req' = [route |-> "admin", headers |-> << >>, client |-> None,
               key |-> admin_key, t |-> 0]
    /\ pc' = "idle"
    /\ IF ~authorized(admin_key, ADMIN_KEY)
       THEN /\ resp' = unauthorized
            /\ calls' = NoCalls
            /\ UNCHANGED supabase_client
       ELSE LET g == get_supabase(supabase_client, configured, cc)
                result == IF g.client # None /\ sel = "ok"
                          THEN QueryRecent(visits, HistoryLimit)
                          ELSE << >>
            IN  /\ supabase_client' = g.client
                /\ resp' = dashboard(table_rows(result))
                /\ calls' = [NoCalls EXCEPT
                               !.create_client = g.create_client,
                               !.select = IF g.client # None THEN sel ELSE "none"]
    /\ UNCHANGED << app, ADMIN_KEY, configured, status, visits, resolved >>

\* api, any other path.
handle_404 ==
    /\ Serving("api")
    /\ req' = [route |-> "404", headers |-> << >>, client |-> None, key |-> << >>, t |-> 0]
    /\ pc' = "idle"
    /\ resp' = not_found
    /\ calls' = NoCalls
    /\ UNCHANGED << app, ADMIN_KEY, configured, status, supabase_client, visits, resolved >>

\* main GET /: landing.  The handler blocks in gethostbyaddr when ip is truthy.
landing(request, t, ins) ==
    /\ Serving("main")
    /\ LET ip == detect_ip_main(request)[1]
       IN  /\ req' = [route |-> "home", headers |-> request.headers,
                      client |-> request.client, key |-> << >>, t |-> t]
           /\ IF calls_gethostbyaddr_main(ip)
              THEN /\ pc' = "dns"
                   /\ resp' = NoResponse
                   /\ calls' = [NoCalls EXCEPT !.gethostbyaddr = "pending"]
                   /\ UNCHANGED visits
              ELSE LET v == record_visit_main(request, NoAnswer, t, ins)
                   IN  /\ pc' = "idle"
                       /\ visits' = Inserted(visits, v)
                       /\ resp' = IF v.status = 200 THEN landing_page(t)
                                  ELSE server_error("home")
                       /\ calls' = [NoCalls EXCEPT !.insert = v.insert,
                                                   !.insert_result = v.insert_result]
    /\ UNCHANGED << app, ADMIN_KEY, configured, status, supabase_client, resolved >>

\* main GET /admin?key=...
admin_view(key, sel) ==
    /\ Serving("main")
    /\ req' = [route |-> "admin", headers |-> << >>, client |-> None, key |-> key, t |-> 0]
    /\ pc' = "idle"
    /\ IF ~authorized(key, ADMIN_KEY)
       THEN /\ resp' = unauthorized
            /\ calls' = NoCalls
       ELSE LET rows == IF sel = "ok" THEN QueryRecent(visits, HistoryLimit) ELSE << >>
            IN  /\ resp' = dashboard(table_rows_main(rows))
                /\ calls' = [NoCalls EXCEPT !.select = sel]
    /\ UNCHANGED << app, ADMIN_KEY, configured, status, supabase_client, visits, resolved >>

\* main GET /raw: raw_info makes no lookup.
raw_info(request) ==
    /\ Serving("main")
    /\ LET r == detect_ip_main(request)
       IN  /\ req' = [route |-> "raw", headers |-> request.headers,
                      client |-> request.client, key |-> << >>, t |-> 0]
           /\ resp' = [status |-> 200, route |-> "raw",
                       body |-> [ip |-> r[1], x_forwarded_for |-> r[2],
                                 headers |-> request.headers]]
    /\ pc' = "idle"
    /\ calls' = NoCalls
    /\ UNCHANGED << app, ADMIN_KEY, configured, status, supabase_client, visits, resolved >>

\* socket.gethostbyaddr returns a host name or raises, and the blocked
\* handler runs to its end.  The clock is read after the lookup.
gethostbyaddr_returns(answer, t, ins) ==
    /\ pc = "dns"
    /\ pc' = "idle"
    /\ req' = [req EXCEPT !.t = t]
    /\ LET c == [calls EXCEPT !.gethostbyaddr = IF answer = Raised THEN "raise" ELSE "ok"]
       IN  CASE app = "api" /\ req.route = "home" ->
                  LET v == log_visit(supabase_client, req.headers, answer, t, ins)
                  IN  /\ visits' = Inserted(visits, v)
                      /\ resp' = IF v.status = 200
                                 THEN home_page(ADMIN_KEY, req.headers,
                                                detect_ip(req.headers)[1], t)
                                 ELSE server_error("home")
                      /\ calls' = [c EXCEPT !.insert = v.insert,
                                            !.insert_result = v.insert_result]
              [] app = "api" /\ req.route = "raw" ->
                  /\ resp' = raw_json(req.headers, t,
                                      reverse_dns(detect_ip(req.headers)[1], answer))
                  /\ calls' = c
                  /\ UNCHANGED visits
              [] app = "main" ->
                  LET request == [headers |-> req.headers, client |-> req.client]
                      v == record_visit_main(request, answer, t, ins)
                  IN  /\ visits' = Inserted(visits, v)
                      /\ resp' = IF v.status = 200 THEN landing_page(t)
                                 ELSE server_error("home")
                      /\ calls' = [c EXCEPT !.insert = v.insert,
                                            !.insert_result = v.insert_result]
    /\ UNCHANGED << app, ADMIN_KEY, configured, status, supabase_client, resolved >>

\* ------------------------------------------------------------------ inputs
Apps == {"api", "main"}

\* Two values of the ADMIN_KEY environment variable.
Secrets == {<< "k" >>, << "s" >>}

\* The key a caller sends: none (key=''), or either secret.
SentKeys == {<< >>} \cup Secrets

Outcomes == {"ok", "raise"}

HostName == << "h" >>

Answers == {HostName, Raised}

\* A header map: the three address headers; user-agent and referer absent.
H(xff, cf, real) ==
    [n \in HeaderNames |->
        CASE n = "x-forwarded-for" -> xff
          [] n = "cf-connecting-ip" -> cf
          [] n = "x-real-ip" -> real
          [] OTHER -> None]

\* Spec's requests: no signal, a two-entry chain, a CDN header, and a chain
\* of whitespace only.
SpecHeaders ==
    { H(None, None, None),
      H(<< "1", ",", " ", "2" >>, None, None),
      H(None, << "2" >>, None),
      H(<< " " >>, None, None) }

Peers == {None, << "1", "2" >>}

\* Spec's one clock reading (datetime.utcnow()).  Timestamps decide only the
\* dashboard's order, which HistorySpec checks with readings on both sides
\* of the stored rows.
SpecTimes == {0}

\* ----------------------------------------------------------- specifications
Init ==
    /\ app \in Apps
    /\ ADMIN_KEY \in Secrets
    /\ configured \in BOOLEAN
    /\ status = "boot"
    /\ supabase_client = None
    /\ visits = << >>
    /\ pc = "idle"
    /\ req = NoRequest
    /\ resp = NoResponse
    /\ calls = NoCalls
    /\ resolved = None

\* The server's own steps: the import and one handler per request.  A
\* handler runs alone: both programs handle a request synchronously
\* (landing is an async function that never awaits), so no request is begun
\* while another is blocked in gethostbyaddr.
ServerStep ==
    \/ Startup
    \/ \E h \in SpecHeaders, cc \in Outcomes, t \in SpecTimes, ins \in Outcomes :
          Len(visits) < MaxVisits /\ handle_home(h, cc, t, ins)
    \/ \E h \in SpecHeaders, t \in SpecTimes : handle_raw(h, t)
    \/ \E k \in SentKeys, cc \in Outcomes, sel \in Outcomes : handle_admin(k, cc, sel)
    \/ handle_404
    \/ \E h \in SpecHeaders, p \in Peers, t \in SpecTimes, ins \in Outcomes :
          Len(visits) < MaxVisits /\ landing([headers |-> h, client |-> p], t, ins)
    \/ \E k \in SentKeys, sel \in Outcomes : admin_view(k, sel)
    \/ \E h \in SpecHeaders, p \in Peers : raw_info([headers |-> h, client |-> p])

\* The resolver answers a blocked handler, or one of the server's steps.
Next ==
    \/ ServerStep
    \/ \E a \in Answers, t \in SpecTimes, ins \in Outcomes : gethostbyaddr_returns(a, t, ins)

Spec == Init /\ [][Next]_vars

\* Spec with the server's steps taken whenever they stay possible.  Nothing
\* in either program makes gethostbyaddr return (no timeout is set), so the
\* resolver's answer gets no fairness.
FairSpec == Init /\ [][Next]_vars /\ WF_vars(ServerStep)

\* ResolveSpec: detect_ip applied to every header set with an
\* x-forwarded-for value of at most MaxLen characters.
ResolveHeaders ==
    { H(x, c, r) : x \in Texts(MaxLen) \cup {None},
                   c \in {None, << >>, << "2" >>},
                   r \in {None, << >>, << "1" >>} }

ResolveInit ==
    /\ app \in Apps
    /\ ADMIN_KEY \in Secrets
    /\ configured = TRUE
    /\ status = "up"
    /\ supabase_client = None
    /\ visits = << >>
    /\ pc = "idle"
    /\ req \in [route : {"resolve"}, headers : ResolveHeaders, client : Peers,
               key : {<< >>}, t : {0}]
    /\ resp = NoResponse
    /\ calls = NoCalls
    /\ resolved = None

resolve_api ==
    /\ app = "api"
    /\ resolved = None
    /\ resolved' = detect_ip(req.headers)
    /\ UNCHANGED << app, ADMIN_KEY, configured, status, supabase_client, visits, pc,
                    req, resp, calls >>

resolve_main ==
    /\ app = "main"
    /\ resolved = None
    /\ resolved' = detect_ip_main([headers |-> req.headers, client |-> req.client])
    /\ UNCHANGED << app, ADMIN_KEY, configured, status, supabase_client, visits, pc,
                    req, resp, calls >>

ResolveNext == resolve_api \/ resolve_main

ResolveSpec == ResolveInit /\ [][ResolveNext]_vars

\* HistorySpec: the dashboard over a table that earlier processes filled.
\* Row i of the fill has ts = i, so insert order is the reverse of the
\* dashboard's order.
PreRows ==
    [i \in 1..PreFill |->
        [ts |-> i, ip |-> << "1" >>, x_forwarded_for |-> None,
         headers |-> H(None, << "1" >>, None), user_agent |-> None,
         referer |-> None, remote_host |-> None]]

\* Clock readings older than every filled row, equal to the newest, and newer.
HistoryTimes == {0, PreFill, PreFill + 1}

\* Requests that make no lookup.
HistoryHeaders == {H(None, None, None)}

HistoryInit ==
    /\ app \in Apps
    /\ ADMIN_KEY \in Secrets
    /\ configured \in BOOLEAN
    /\ status = "boot"
    /\ supabase_client = None
    /\ visits \in {<< >>, PreRows}
    /\ pc = "idle"
    /\ req = NoRequest
    /\ resp = NoResponse
    /\ calls = NoCalls
    /\ resolved = None

\* The table may grow by MaxNew rows from either start.
HistoryRoom ==
    \/ Len(visits) < MaxNew
    \/ Len(visits) >= PreFill /\ Len(visits) < PreFill + MaxNew

HistoryNext ==
    \/ Startup
    \/ \E h \in HistoryHeaders, cc \in Outcomes, t \in HistoryTimes, ins \in Outcomes :
          HistoryRoom /\ handle_home(h, cc, t, ins)
    \/ \E k \in SentKeys, cc \in Outcomes, sel \in Outcomes : handle_admin(k, cc, sel)
    \/ \E h \in HistoryHeaders, t \in HistoryTimes, ins \in Outcomes :
          HistoryRoom /\ landing([headers |-> h, client |-> None], t, ins)
    \/ \E k \in SentKeys, sel \in Outcomes : admin_view(k, sel)

HistorySpec == HistoryInit /\ [][HistoryNext]_vars

\* -------------------------------------------------------------- properties
XFF == req.headers["x-forwarded-for"]

\* p is the first comma-separated entry of s.
IsFirstEntry(p, s) ==
    \E n \in 0..Len(s) :
        /\ p = SubSeq(s, 1, n)
        /\ \A k \in 1..n : s[k] # ","
        /\ n = Len(s) \/ s[n + 1] = ","

\* e is p without its leading and trailing whitespace.
IsTrimOf(e, p) ==
    \E i \in 1..(Len(p) + 1), j \in 0..Len(p) :
        /\ e = SubSeq(p, i, j)
        /\ \A k \in 1..(i - 1) : p[k] \in Whitespace
        /\ \A k \in (j + 1)..Len(p) : p[k] \in Whitespace
        /\ e = << >> \/ (e[1] \notin Whitespace /\ e[Len(e)] \notin Whitespace)

\* C1: with a non-empty x-forwarded-for header, detect_ip returns its first
\* comma-separated entry, trimmed, as the address and the whole header value
\* as the chain, whatever the other headers and the peer address are.
C1_ForwardedFirstEntry ==
    (resolved # None /\ Truthy(XFF)) =>
        /\ \E n \in 0..Len(XFF) :
              /\ IsFirstEntry(SubSeq(XFF, 1, n), XFF)
              /\ IsTrimOf(resolved[1], SubSeq(XFF, 1, n))
        /\ resolved[2] = XFF

\* C1's case: " 1," with a CDN header, a real-ip header and a peer present.
C1_Witness ==
    /\ resolved # None
    /\ XFF = << " ", "1", "," >>
    /\ req.headers["cf-connecting-ip"] = << "2" >>
    /\ req.headers["x-real-ip"] = << "1" >>
    /\ req.client # None
    /\ resolved = << << "1" >>, XFF >>

\* C2: without a (non-empty) x-forwarded-for header, the address is the
\* first present of cf-connecting-ip, x-real-ip and the peer address, and
\* the chain is None (not the empty string).
C2_FallbackOrder ==
    (resolved # None /\ ~Truthy(XFF)) =>
        LET cf == req.headers["cf-connecting-ip"]
            real == req.headers["x-real-ip"]
            peer == req.client
        IN  /\ Truthy(cf) => resolved[1] = cf
            /\ (~Truthy(cf) /\ Truthy(real)) => resolved[1] = real
            /\ (~Truthy(cf) /\ ~Truthy(real) /\ Truthy(peer)) => resolved[1] = peer
            /\ resolved[2] = None

\* C3: a visit with none of the three address headers and no peer address is
\* stored with the "unknown" marker as its address, never None or "".
C3_UnknownMarker ==
    ( /\ pc = "idle"
      /\ req.route = "home"
      /\ req.headers["x-forwarded-for"] = None
      /\ req.headers["cf-connecting-ip"] = None
      /\ req.headers["x-real-ip"] = None
      /\ req.client = None
      /\ calls.insert # << >> )
    => calls.insert[1].ip = Unknown

\* C4: whatever the insert does (succeeds, raises, no handle), a landing
\* request is answered 200, at most one insert is attempted for it, and the
\* table changes only by the one row of a successful insert: a failed
\* insert is not tried again and not kept for later.
C4_Step ==
    /\ (pc' = "idle" /\ req'.route = "home") =>
          /\ resp'.status = 200
          /\ Len(calls'.insert) <= 1
          /\ visits' = IF calls'.insert_result = "ok"
                       THEN visits \o calls'.insert
                       ELSE visits
    /\ ~(pc' = "idle" /\ req'.route = "home") => visits' = visits

C4_InsertFailureContained == [][C4_Step]_vars

\* C4's case: the insert raised and the page was served.
C4_Witness ==
    /\ pc = "idle"
    /\ req.route = "home"
    /\ calls.insert_result = "raise"
    /\ Len(calls.insert) = 1
    /\ resp.status = 200

\* C5: a failed (or timed out) reverse-DNS lookup never reaches the caller:
\* the response is the normal 200 one, remote_host is None, and a landing
\* request still submits its record.  Addresses for which no lookup is made
\* ("unknown", empty) give None as well.
C5_LookupFailureContained ==
    /\ (pc = "idle" /\ calls.gethostbyaddr = "raise") =>
          /\ resp.status = 200
          /\ req.route = "home" =>
                (Len(calls.insert) = 1 /\ calls.insert[1].remote_host = None)
          /\ req.route = "raw" => resp.body.remote_host = None
    /\ (pc = "idle" /\ req.route = "home" /\ calls.gethostbyaddr = "none"
          /\ calls.insert # << >>) =>
          (resp.status = 200 /\ calls.insert[1].remote_host = None)

\* C5's case: the lookup of a landing request raised and the record, with no
\* remote_host, was inserted.
C5_Witness ==
    /\ pc = "idle"
    /\ req.route = "home"
    /\ calls.gethostbyaddr = "raise"
    /\ calls.insert_result = "ok"
    /\ visits # << >>
    /\ visits[Len(visits)].remote_host = None

Count(rows, v) == Cardinality({k \in 1..Len(rows) : rows[k].ts = v})

\* rows holds the largest timestamps of table: nothing that is not in the
\* table, and every table row newer than the oldest row returned.
MostRecent(rows, table) ==
    \A v \in {table[i].ts : i \in 1..Len(table)} \cup {rows[k].ts : k \in 1..Len(rows)} :
        /\ Count(rows, v) <= Count(table, v)
        /\ (rows # << >> /\ v > rows[Len(rows)].ts) => Count(rows, v) = Count(table, v)

\* C6: an authorized dashboard request is answered 200 with at most 100
\* rows, the most recent ones, newest first; with an empty table, no handle
\* or a query that raises, with no rows.
C6_Step ==
    (req'.route = "admin" /\ req'.key = ADMIN_KEY) =>
        /\ resp'.status = 200
        /\ LET rows == resp'.body.rows
           IN  /\ Len(rows) <= HistoryLimit
               /\ \A k \in 1..(Len(rows) - 1) : rows[k].ts >= rows[k + 1].ts
               /\ calls'.select = "ok" =>
                     /\ Len(rows) = IF Len(visits) < HistoryLimit
                                    THEN Len(visits) ELSE HistoryLimit
                     /\ MostRecent(rows, visits)
               /\ calls'.select # "ok" => rows = << >>
               /\ visits = << >> => rows = << >>

C6_HistoryBounded == [][C6_Step]_vars

\* C6's case: more rows stored than the limit, the newest shown first.
C6_Witness ==
    /\ resp.route = "admin"
    /\ resp.status = 200
    /\ Len(visits) > HistoryLimit
    /\ Len(resp.body.rows) = HistoryLimit
    /\ resp.body.rows[1].ts = PreFill + 1
    /\ visits[Len(visits)].ts = 0

\* C7: an admin request whose key differs from the secret (a missing key
\* included) is answered 401 with no record in it, makes no store call and
\* leaves the table as it was.
C7_Step ==
    (req'.route = "admin" /\ req'.key # ADMIN_KEY) =>
        /\ resp'.status = 401
        /\ resp'.body = << >>
        /\ calls' = NoCalls
        /\ visits' = visits
        /\ supabase_client' = supabase_client

C7_UnauthorizedSeesNothing == [][C7_Step]_vars

\* C7's case: records are stored and a request without a key was refused.
C7_Witness ==
    /\ req.route = "admin"
    /\ req.key = << >>
    /\ resp.status = 401
    /\ visits # << >>

\* A step that calls create_client.
Constructs == pc = "idle" /\ calls'.create_client # "none"

\* C8: the handle is built on first use and not at startup; a failed
\* construction ends nothing and leaves the handle unset; once built, the
\* handle is kept and never built again.
C8_Step ==
    /\ status = "boot" => ~Constructs
    /\ status' # "crashed"
    /\ (Constructs /\ calls'.create_client = "raise") => supabase_client' = None
    /\ supabase_client # None => (~Constructs /\ supabase_client' = supabase_client)

C8_LazyHandle == [][C8_Step]_vars

\* C9: every lookup ends (as an answer, a failure or a timeout) and the
\* blocked request gets its response.
C9_LookupEnds == (pc = "dns") ~> (pc = "idle" /\ resp # NoResponse)

\* The response the request req gets when the secret is k.
ResponseWith(k) ==
    CASE req.route = "home" /\ app = "api" /\ resp.status = 200 ->
            home_page(k, req.headers, detect_ip(req.headers)[1], req.t)
      [] req.route = "admin" ->
            IF req.key = k THEN resp ELSE unauthorized
      [] OTHER -> resp

\* C10: a response on a non-admin route, or a refusal on the admin route, is
\* the same whatever the secret is.
C10_SecretNotDisclosed ==
    \A k \in Secrets :
        (pc = "idle" /\ resp # NoResponse
           /\ (req.route # "admin" \/ (resp.status = 401 /\ req.key # k)))
        => resp = ResponseWith(k)

====
